---- MODULE Spec2Model ----
(***************************************************************************)
(* ripple-sepa-bridge: the ticket lifecycle and the payment reconciliation *)
(* engine (src/ripple/sepa/bridge.py, src/ripple/sepa/model.py).           *)
(*                                                                         *)
(* Every HTTP request is a unit of work with its own SQLAlchemy session;   *)
(* the committed rows of the ticket table are the only shared state.  A    *)
(* request advances in steps, one step per interaction with the database   *)
(* or with an external collaborator (wasipaid, the SEPA backend), so that  *)
(* requests interleave at exactly those points.                            *)
(*                                                                         *)
(* Money is counted in units of 1/10000 EUR (a Decimal is exact, and the   *)
(* fee of a cent amount has at most four decimal places).                  *)
(***************************************************************************)
EXTENDS Integers, Sequences, FiniteSets, TLC

\* ------------------------------------------------------------------ bounds
\* Requests the service handles at the same time.
MaxWorkers == 2
\* Requests (quotes and payment notifications) the service receives.
MaxRequests == 3
\* Tickets constructed by quote requests.
MaxQuotes == 1

\* The same three, for the runs that exercise the limits (SpecLimits), and
\* the number of midnights (UTC) those runs see.
MaxLimitRequests == 6
MaxLimitQuotes == 3
MaxDays == 1
MaxParseRequests == 1

Workers == 1 .. MaxWorkers

\* ------------------------------------------------------------- configuration
\* CONFIG_DEFAULTS; one unit is 1/10000 EUR.
FIXED_FEE == 15000
VOLUME_FEE == 5
USER_TX_LIMIT == 1000000
BRIDGE_TX_LIMIT == 5000000

\* ------------------------------------------------------------------ values
\* Python None / SQL NULL.
NULL == "NULL"
\* A notification whose data has no invoice_id key at all.
NoKey == "NoKey"

\* Ticket ids are 64 lower-case hex characters drawn at random; the k-th
\* ticket constructed gets LowerIds[k].  A client may echo an id back in
\* upper case.
LowerIds == <<"ab1", "ab2", "ab3", "ab4", "ab5">>
UpperIds == <<"AB1", "AB2", "AB3", "AB4", "AB5">>
UnknownId == "ff9"
MaxTickets == IF MaxLimitQuotes > MaxQuotes THEN MaxLimitQuotes ELSE MaxQuotes
TicketIds == {LowerIds[k] : k \in 1 .. MaxTickets}

\* str.lower() on the invoice ids that occur.
Lower(s) ==
    IF \E k \in DOMAIN UpperIds : UpperIds[k] = s
    THEN LowerIds[CHOOSE k \in DOMAIN UpperIds : UpperIds[k] = s]
    ELSE s

Fields ==
    {"amount", "fee", "created_at", "ripple_address", "status", "failed",
     "recipient_name", "bic", "iban", "text"}

\* Variant of Ticket: the fee left out.
TicketWithoutFee(amount, fee, sepa, utcnow) ==
    [amount |-> amount, fee |-> 0, created_at |-> utcnow,
     ripple_address |-> NULL,
     status |-> "quoted", failed |-> NULL,
     recipient_name |-> sepa.name, bic |-> sepa.bic, iban |-> sepa.iban,
     text |-> sepa.text]

\* Variant of Ticket: a new ticket counts as paid.
TicketBornReceived(amount, fee, sepa, utcnow) ==
    [amount |-> amount, fee |-> fee, created_at |-> utcnow,
     ripple_address |-> NULL,
     status |-> "received", failed |-> NULL,
     recipient_name |-> sepa.name, bic |-> sepa.bic, iban |-> sepa.iban,
     text |-> sepa.text]


\* Ticket.__init__: a new ticket is quoted, with no sender and no failure
\* marker; utcnow is the day (UTC) of its creation.
Ticket(amount, fee, sepa, utcnow) ==
    [amount |-> amount, fee |-> fee, created_at |-> utcnow,
     ripple_address |-> NULL,
     status |-> "quoted", failed |-> NULL,
     recipient_name |-> sepa.name, bic |-> sepa.bic, iban |-> sepa.iban,
     text |-> sepa.text]

\* A table position that holds no row.
NoRow == [status |-> "absent"]

\* What an expired attribute holds until it is loaded again (never read).
BlankRow ==
    [amount |-> 0, fee |-> 0, created_at |-> 0, ripple_address |-> NULL,
     status |-> NULL,
     failed |-> NULL, recipient_name |-> NULL, bic |-> NULL, iban |-> NULL,
     text |-> NULL]

\* ------------------------------------------------------ the ORM session
\* tid: the primary key of the ticket the session holds (NULL: none);
\* orig: each attribute as loaded from the row;
\* cur: each attribute as the request sees it now;
\* expired: the attributes that a commit or rollback expired and that were
\*     neither loaded nor assigned since;
\* unloaded: the attributes assigned while expired, which have no loaded
\*     value to compare with;
\* new: a ticket added with db.session.add and not yet inserted.
NoNew == [id |-> NULL]
NoSession ==
    [tid |-> NULL, orig |-> BlankRow, cur |-> BlankRow, expired |-> Fields,
     unloaded |-> {}, new |-> NoNew]

\* Ticket.query.get(id): the row as committed at the time of the SELECT.
Load(id, row) ==
    [tid |-> id, orig |-> row, cur |-> row, expired |-> {}, unloaded |-> {},
     new |-> NoNew]

\* Reading an attribute of an expired object loads every expired attribute
\* from the committed row; attributes assigned since the expiry keep the
\* assigned value.
Refresh(s, row) ==
    [s EXCEPT
        !.orig = [f \in Fields |-> IF f \in s.expired THEN row[f] ELSE s.orig[f]],
        !.cur = [f \in Fields |-> IF f \in s.expired THEN row[f] ELSE s.cur[f]],
        !.expired = {}]

\* ticket.<f> = v
SetAttr(s, f, v) ==
    [s EXCEPT
        !.cur[f] = v,
        !.expired = @ \ {f},
        !.unloaded = IF f \in s.expired THEN @ \cup {f} ELSE @]

\* The attributes a flush writes: those assigned a value that differs from
\* the loaded one; an attribute assigned while expired is always written.
Dirty(s) ==
    {f \in Fields \ s.expired : f \in s.unloaded \/ s.cur[f] # s.orig[f]}

\* UPDATE ticket SET <dirty attributes> WHERE id = <tid>: no version check,
\* the other columns keep what is committed.
Flush(row, s) == [f \in Fields |-> IF f \in Dirty(s) THEN s.cur[f] ELSE row[f]]

\* After a commit or a rollback every attribute is expired.
Expire(s) ==
    [s EXCEPT !.orig = BlankRow, !.cur = BlankRow, !.expired = Fields,
              !.unloaded = {}, !.new = NoNew]

\* Variant of clear: the memo left in place.
clearKeepsText(s) ==
    SetAttr(SetAttr(SetAttr(s, "bic", ""), "iban", ""), "recipient_name", "")

\* Variant of clear: the failure marker forgotten as well.
clearForgetsFailure(s) ==
    SetAttr(SetAttr(SetAttr(SetAttr(SetAttr(s, "bic", ""), "iban", ""),
                            "recipient_name", ""), "text", ""), "failed", NULL)


\* Ticket.clear()
clear(s) ==
    SetAttr(SetAttr(SetAttr(SetAttr(s, "bic", ""), "iban", ""),
                    "recipient_name", ""), "text", "")

\* ------------------------------------------------------------------ state
VARIABLES
    cfg,      \* app.config: is SEPA_API configured? the two limits; does
              \* Postmark take the mails?
    today,    \* the current day (UTC), counted from the first
    db,       \* committed ticket rows, by id (NoRow: no such row)
    nextId,   \* number of tickets constructed so far
    nreq,     \* number of requests received so far
    pc,       \* per worker: where the handler of its request stands
    req,      \* per worker: the request it handles, or handled last
    sess,     \* per worker: the ORM session of its request
    found,    \* per worker: what Ticket.query.get returned to its request
    exc,      \* per worker: the exception the view raised (NULL: none)
    resp,     \* per worker: the response (NoResp: none yet)
    mails,    \* per worker: the operator mails its request sent, in order
    calls,    \* per ticket: the settlement calls issued for it, in order
    tmails,   \* per ticket: the operator mails sent about it, in order
    hist      \* per ticket: every status value committed, in commit order

vars ==
    <<cfg, today, db, nextId, nreq, pc, req, sess, found, exc, resp, mails, calls,
      tmails, hist>>

NoRequest == [kind |-> "none"]
NoResp == [code |-> 0]
NoTicket == [id |-> NULL]

\* Everything but the configuration, before the first request.
Fresh ==
    /\ today = 0
    /\ db = [t \in TicketIds |-> NoRow]
    /\ nextId = 0
    /\ nreq = 0
    /\ pc = [w \in Workers |-> "idle"]
    /\ req = [w \in Workers |-> NoRequest]
    /\ sess = [w \in Workers |-> NoSession]
    /\ found = [w \in Workers |-> NoTicket]
    /\ exc = [w \in Workers |-> NULL]
    /\ resp = [w \in Workers |-> NoResp]
    /\ mails = [w \in Workers |-> <<>>]
    /\ calls = [t \in TicketIds |-> <<>>]
    /\ tmails = [t \in TicketIds |-> <<>>]
    /\ hist = [t \in TicketIds |-> <<>>]

\* The limits are the defaults; a backend is configured or not.
Init ==
    /\ cfg \in [sepa_api : BOOLEAN, user_tx_limit : {USER_TX_LIMIT},
                bridge_tx_limit : {BRIDGE_TX_LIMIT}, postmark : {TRUE}]
    /\ Fresh

\* db.session.commit(): insert the added ticket, write the dirty attributes
\* of the held ticket.
CommitRows(d, s) ==
    [t \in TicketIds |->
        IF s.new.id = t THEN s.new.row
        ELSE IF s.tid = t /\ d[t] # NoRow THEN Flush(d[t], s)
        ELSE d[t]]

\* The status values a commit makes durable, appended to the ticket's
\* history.
CommitHist(h, s) ==
    [t \in TicketIds |->
        IF s.new.id = t THEN Append(h[t], s.new.row.status)
        ELSE IF s.tid = t /\ "status" \in Dirty(s) THEN Append(h[t], s.cur.status)
        ELSE h[t]]

\* ------------------------------------------------------------- collaborators
\* send_mail: one mail to the ADMINS through Postmark.  PMMail.send()
\* returns when Postmark took the mail (MailUp) and raises otherwise: no
\* POSTMARK_KEY, no ADMINS, or Postmark not reachable.
send_mail(m, k, subject) == [m EXCEPT ![k] = Append(@, subject)]
MailUp == cfg.postmark
MailError == "PMMailSendException"

MailUnmatched == "Received unexpected payment"
MailUnexpected == "Received payment with unexpected amount"
MailProcessed == "SEPA bridge: Transaction processed"
MailManual == "SEPA bridge: Payment received: Execute a transfer"

\* ------------------------------------------------------------------ quote
\* Recipients a quote request may name.
ValidIbans == {"GB82WEST12345698765432", "CH9300762011623852957"}
ValidBics == {"DABADKKK"}
LongText == "b*140"
TextLen(text) == IF text = LongText THEN 140 ELSE 5

GoodSepa ==
    [name |-> "A User", bic |-> "DABADKKK", iban |-> "GB82WEST12345698765432",
     text |-> "Yadda"]

\* validate_sepa: the first rule violated, or "ok".
validate_sepa(sepa) ==
    IF sepa.iban \notin ValidIbans THEN "iban"
    ELSE IF sepa.bic \notin ValidBics THEN "bic"
    ELSE IF sepa.name = "" THEN "name"
    ELSE IF TextLen(sepa.text) > 130 THEN "text"
    ELSE "ok"

\* The amount parameter split at '/': <<decimal, currency>>.
QuoteInputs ==
    {[sepa |-> GoodSepa, amount |-> <<220000, "EUR">>],
     [sepa |-> [GoodSepa EXCEPT !.name = ""], amount |-> <<220000, "EUR">>],
     [sepa |-> GoodSepa, amount |-> <<220000, "USD">>],
     [sepa |-> GoodSepa, amount |-> <<220050, "EUR">>],
     [sepa |-> GoodSepa, amount |-> <<1220000, "EUR">>],
     [sepa |-> GoodSepa, amount |-> <<220000>>]}

\* amount.quantize(Decimal('0.00')) != amount
DividesCents(amount) == amount % 100 # 0

RECURSIVE SumAmounts(_, _)
SumAmounts(d, S) ==
    IF S = {} THEN 0
    ELSE LET t == CHOOSE x \in S : TRUE
         IN  d[t].amount + SumAmounts(d, S \ {t})

\* Variants of tx_volume_today: quoted tickets counted as well; tickets of
\* earlier days counted as well.
tx_volume_with_quoted(d, iban) ==
    SumAmounts(d, {t \in TicketIds :
        /\ d[t] # NoRow
        /\ d[t].created_at = today
        /\ (iban # "" => d[t].iban = iban)})
tx_volume_ever(d, iban) ==
    SumAmounts(d, {t \in TicketIds :
        /\ d[t] # NoRow
        /\ d[t].status # "quoted"
        /\ (iban # "" => d[t].iban = iban)})

\* Ticket.tx_volume_today(iban): the amounts of the tickets created today
\* that are not quoted, of the recipient if one is given.
tx_volume_today(d, iban) ==
    SumAmounts(d, {t \in TicketIds :
        /\ d[t] # NoRow
        /\ d[t].status # "quoted"
        /\ d[t].created_at = today
        /\ (iban # "" => d[t].iban = iban)})

\* Variant of Fee: the fee rounded down to whole cents.
FeeInCents(amount) ==
    ((FIXED_FEE + (amount * VOLUME_FEE) \div 100) \div 100) * 100

\* fee = FIXED_FEE + amount * (VOLUME_FEE / 100), exact for cent amounts.
Fee(amount) == FIXED_FEE + (amount * VOLUME_FEE) \div 100

\* Variant of QuoteError: the currency not looked at.
QuoteErrorAnyCurrency(d, q) ==
    IF validate_sepa(q.sepa) # "ok" THEN "invalidSEPA"
    ELSE IF Len(q.amount) # 2 THEN "BadRequest"
    ELSE IF DividesCents(q.amount[1]) THEN "invalidAmount"
    ELSE IF cfg.user_tx_limit # 0
            /\ q.amount[1] + tx_volume_today(d, q.sepa.iban) > cfg.user_tx_limit
         THEN "limitExceeded"
    ELSE IF cfg.bridge_tx_limit # 0
            /\ q.amount[1] + tx_volume_today(d, "") > cfg.bridge_tx_limit
         THEN "limitExceeded"
    ELSE "none"


\* What the quote view answers, before any ticket is constructed.
QuoteError(d, q) ==
    IF validate_sepa(q.sepa) # "ok" THEN "invalidSEPA"
    ELSE IF Len(q.amount) # 2 THEN "BadRequest"
    ELSE IF q.amount[2] # "EUR" THEN "invalidAmount"
    ELSE IF DividesCents(q.amount[1]) THEN "invalidAmount"
    ELSE IF cfg.user_tx_limit # 0
            /\ q.amount[1] + tx_volume_today(d, q.sepa.iban) > cfg.user_tx_limit
         THEN "limitExceeded"
    ELSE IF cfg.bridge_tx_limit # 0
            /\ q.amount[1] + tx_volume_today(d, "") > cfg.bridge_tx_limit
         THEN "limitExceeded"
    ELSE "none"

\* A worker is free when it handles no request; the free worker with the
\* least number takes the next request.
Free(w) == pc[w] \in {"idle", "done", "crashed"}
Takes(w) ==
    /\ Free(w)
    /\ \A o \in Workers : o < w => ~Free(o)

\* The worker's record of its previous request is dropped.
Begin(w, request) ==
    /\ nreq' = nreq + 1
    /\ req' = [req EXCEPT ![w] = request]
    /\ found' = [found EXCEPT ![w] = NoTicket]
    /\ mails' = [mails EXCEPT ![w] = <<>>]

\* The quote view.
quote(w, q) ==
    /\ Takes(w)
    /\ Begin(w, [kind |-> "quote", no |-> nreq + 1, quote |-> q])
    /\ exc' = [exc EXCEPT ![w] = NULL]
    /\ LET err == QuoteError(db, q) IN
       IF err = "BadRequest"
       THEN /\ resp' = [resp EXCEPT ![w] = [code |-> 400, body |-> err]]
            /\ sess' = [sess EXCEPT ![w] = NoSession]
            /\ UNCHANGED nextId
       ELSE IF err # "none"
       THEN /\ resp' = [resp EXCEPT ![w] =
                   [code |-> 200, body |-> err,
                    message |-> IF err = "invalidSEPA"
                                THEN validate_sepa(q.sepa) ELSE ""]]
            /\ sess' = [sess EXCEPT ![w] = NoSession]
            /\ UNCHANGED nextId
       ELSE /\ nextId' = nextId + 1
            /\ sess' = [sess EXCEPT ![w] =
                   [NoSession EXCEPT !.new =
                       [id |-> LowerIds[nextId + 1],
                        row |-> Ticket(q.amount[1], Fee(q.amount[1]), q.sepa,
                                      today)]]]
            /\ resp' = [resp EXCEPT ![w] =
                   [code |-> 200, body |-> "success",
                    invoice_id |-> LowerIds[nextId + 1],
                    value |-> q.amount[1] + Fee(q.amount[1])]]
    /\ pc' = [pc EXCEPT ![w] = "teardown"]
    /\ UNCHANGED <<cfg, today, db, calls, tmails, hist>>

\* ------------------------------------------------------- recipient strings
\* string.ascii_uppercase, and the country codes of COUNTRIES used here.
ascii_uppercase ==
    {"A", "B", "C", "D", "E", "F", "G", "H", "I", "J", "K", "L", "M", "N",
     "O", "P", "Q", "R", "S", "T", "U", "V", "W", "X", "Y", "Z"}
COUNTRIES == {"CH", "DE", "DK", "GB", "SM"}

\* validate_swift_bic(value): "ok" (the value is returned) or the exception
\* raised.  For an unknown country code line 282 calls .format on the
\* ValueError it has constructed, not on the message: AttributeError.
validate_swift_bic(value) ==
    IF Len(value) # 8 /\ Len(value) # 11 THEN "ValueError"
    ELSE IF \E i \in 1 .. 4 : SubSeq(value, i, i) \notin ascii_uppercase
         THEN "ValueError"
    ELSE IF SubSeq(value, 5, 6) \notin COUNTRIES THEN "AttributeError"
    ELSE "ok"

\* stdnum.iban.validate(part): "ok" for an IBAN with a right checksum, else
\* ValidationError.
stdnum_iban_validate(part) ==
    IF part \in ValidIbans THEN "ok" ELSE "ValidationError"

\* sep in s
Contains(s, sep) == \E i \in 1 .. Len(s) : SubSeq(s, i, i) = sep

\* s.split(sep)
RECURSIVE split(_, _)
split(s, sep) ==
    IF ~Contains(s, sep) THEN <<s>>
    ELSE LET i == CHOOSE k \in 1 .. Len(s) :
                      /\ SubSeq(s, k, k) = sep
                      /\ \A j \in 1 .. k - 1 : SubSeq(s, j, j) # sep
         IN  <<SubSeq(s, 1, i - 1)>> \o split(SubSeq(s, i + 1, Len(s)), sep)

\* s.replace(old, new), for single characters
RECURSIVE replace(_, _, _)
replace(s, old, new) ==
    IF s = "" THEN ""
    ELSE (IF Head(s) = old THEN new ELSE Head(s)) \o replace(Tail(s), old, new)

enable_spaces(s) == replace(s, "+", " ")

\* Lines 332-356: the loop over the parts; idx counts from 0.  r holds the
\* four locals and exc, the exception that ended the loop (NULL: none).
NoFields == [recipient_name |-> "", text |-> "", iban |-> "", bic |-> "",
             exc |-> NULL]

RECURSIVE ScanParts(_, _, _)
ScanParts(parts, idx, r) ==
    IF r.exc # NULL \/ idx = Len(parts) THEN r
    ELSE LET part == parts[idx + 1]
             asBic == validate_swift_bic(part)
         IN
         IF asBic = "ok"
         THEN ScanParts(parts, idx + 1, [r EXCEPT !.bic = part])
         ELSE IF asBic # "ValueError"
         THEN [r EXCEPT !.exc = asBic]
         ELSE IF stdnum_iban_validate(part) = "ok"
         THEN ScanParts(parts, idx + 1, [r EXCEPT !.iban = part])
         ELSE IF r.recipient_name = "" /\ (idx = 0 \/ Len(parts) = 4)
         THEN ScanParts(parts, idx + 1,
                        [r EXCEPT !.recipient_name = enable_spaces(part)])
         ELSE IF r.text # ""
         THEN [r EXCEPT !.exc = "AssertionError"]
         ELSE ScanParts(parts, idx + 1, [r EXCEPT !.text = enable_spaces(part)])

\* What a call of the parser comes to: a dict returned, or an exception
\* raised with a message.
NoDict == [name |-> "", text |-> "", iban |-> "", bic |-> ""]
Raise(e, message) == [exc |-> e, message |-> message, value |-> NoDict]
Return(v) == [exc |-> NULL, message |-> "", value |-> v]

\* Variant of parse_sepa_data: the BIC is asked for before the IBAN.
parse_sepa_data_bic_first(s, require_name) ==
    IF Contains(s, " ") THEN Raise("ValueError", "Not yet supported")
    ELSE LET parts == split(s, "/") IN
    IF Len(parts) \notin {2, 3, 4}
    THEN Raise("ValueError", "old-style recipient has wrong number of parts")
    ELSE LET r == ScanParts(parts, 0, NoFields) IN
    IF r.exc # NULL THEN Raise(r.exc, "")
    ELSE IF r.bic = "" THEN Raise("ValueError", "Did not find a valid BIC")
    ELSE IF r.iban = "" THEN Raise("ValueError", "Did not find a valid IBAN")
    ELSE IF r.recipient_name = "" /\ require_name
    THEN Raise("ValueError", "Did not find a recipient name")
    ELSE Return([name |-> r.recipient_name, text |-> r.text, iban |-> r.iban,
                 bic |-> r.bic])


\* parse_sepa_data(s, require_name)
parse_sepa_data(s, require_name) ==
    IF Contains(s, " ") THEN Raise("ValueError", "Not yet supported")
    ELSE LET parts == split(s, "/") IN
    IF Len(parts) \notin {2, 3, 4}
    THEN Raise("ValueError", "old-style recipient has wrong number of parts")
    ELSE LET r == ScanParts(parts, 0, NoFields) IN
    IF r.exc # NULL THEN Raise(r.exc, "")
    ELSE IF r.iban = "" THEN Raise("ValueError", "Did not find a valid IBAN")
    ELSE IF r.bic = "" THEN Raise("ValueError", "Did not find a valid BIC")
    ELSE IF r.recipient_name = "" /\ require_name
    THEN Raise("ValueError", "Did not find a recipient name")
    ELSE Return([name |-> r.recipient_name, text |-> r.text, iban |-> r.iban,
                 bic |-> r.bic])

\* parse_sepa_destination(user): the string taken as it is and handed to
\* parse_sepa_data.
parse_sepa_destination(user) == parse_sepa_data(user, TRUE)

\* The federation view, handle_request: the form is filled in with what the
\* parser made of the user part, or left empty when it raised ValueError.
\* parsed: what the parser came to.
federation(w, user) ==
    /\ Takes(w)
    /\ Begin(w, [kind |-> "federation", no |-> nreq + 1, user |-> user])
    /\ sess' = [sess EXCEPT ![w] = NoSession]
    /\ LET parsed == parse_sepa_destination(user) IN
       IF parsed.exc \in {NULL, "ValueError"}
       THEN /\ resp' = [resp EXCEPT ![w] =
                   [code |-> 200, body |-> "federation",
                    defaults |-> parsed.value, parsed |-> parsed]]
            /\ exc' = [exc EXCEPT ![w] = NULL]
       ELSE /\ resp' = [resp EXCEPT ![w] = NoResp]
            /\ exc' = [exc EXCEPT ![w] = parsed.exc]
    /\ pc' = [pc EXCEPT ![w] = "teardown"]
    /\ UNCHANGED <<cfg, today, db, nextId, calls, tmails, hist>>

\* ------------------------------------------------------ payment notification
\* The invoice ids a notifier can send: none, null, an id that is no
\* ticket's, or the id of a ticket quoted so far, as given or in upper case.
InvoiceIds(n) ==
    {NoKey, NULL, UnknownId}
        \cup {LowerIds[k] : k \in 1 .. n} \cup {UpperIds[k] : k \in 1 .. n}

\* Paid amounts: amount + fee of the ticket quoted for 22.00, and another.
PaidAmounts == {246000, 500000}
Senders == {"rsender"}

Notifications(n) ==
    [invoice_id : InvoiceIds(n), amount : PaidAmounts, sender : Senders,
     hash : {"foo"}]

\* What https://wasipaid.com/receipt answers: the text VALID, another text,
\* or nothing (requests raises).  RECEIPT_DEBUGGING is not set (it has no
\* default), so every notification is verified.
Receipts == {"VALID", "INVALID", "ERROR"}

\* Variant of Rejected with the comparison inverted.
RejectedInverted(v) == v = "VALID"

\* result.text != 'VALID'
Rejected(v) == v # "VALID"

\* Lines 223-234: validate the notification.
ReceiveNotification(w, n, v) ==
    /\ Takes(w)
    /\ Begin(w, [kind |-> "payment", no |-> nreq + 1, note |-> n, receipt |-> v])
    /\ sess' = [sess EXCEPT ![w] = NoSession]
    /\ IF v = "ERROR"
       THEN /\ exc' = [exc EXCEPT ![w] = "RequestException"]
            /\ resp' = [resp EXCEPT ![w] = NoResp]
            /\ pc' = [pc EXCEPT ![w] = "teardown"]
       ELSE IF Rejected(v)
       THEN /\ exc' = [exc EXCEPT ![w] = NULL]
            /\ resp' = [resp EXCEPT ![w] = [code |-> 400, body |-> "not at all ok"]]
            /\ pc' = [pc EXCEPT ![w] = "teardown"]
       ELSE /\ exc' = [exc EXCEPT ![w] = NULL]
            /\ resp' = [resp EXCEPT ![w] = NoResp]
            /\ pc' = [pc EXCEPT ![w] = "lookup"]
    /\ UNCHANGED <<cfg, today, db, nextId, calls, tmails, hist>>

\* Line 244: the status guard.
\* Variants of StatusGuard: no guard at all; a guard that takes a ticket left
\* in sending for one to be tried again.
GuardOmitted(status) == TRUE
GuardRetriesSending(status) == status \in {"received", "quoted", "sending"}

StatusGuard(status) == status \in {"received", "quoted"}

\* Line 240: the paid amount is the amount quoted plus the fee.
AmountMatches(paid, row) == paid = row.amount + row.fee

\* Ticket.query.get(payment['invoice_id'].lower())
LookupKey(invoice_id) == Lower(invoice_id)

OK200 == [code |-> 200, body |-> "OK"]

\* Line 314: mark the ticket.
\* Variants of MarkUnexpected: the tag forgotten; the payment recorded as
\* received as well; the ticket cleared as well.
MarkUntagged(s) == s
MarkUnexpectedReceived(s) ==
    SetAttr(SetAttr(s, "failed", "unexpected"), "status", "received")

MarkUnexpectedCleared(s) == clear(SetAttr(s, "failed", "unexpected"))

MarkUnexpected(s) == SetAttr(s, "failed", "unexpected")

\* Variant of RecordPayment: the fee taken off the ticket.
RecordPaymentNetOfFee(s, sender) ==
    SetAttr(SetAttr(SetAttr(s, "ripple_address", sender), "status",
                    "received"), "fee", 0)


\* Lines 250-251: record the payment.
RecordPayment(s, sender) ==
    SetAttr(SetAttr(s, "ripple_address", sender), "status", "received")

\* Variant of FoundTicket: the status guard comes before the comparison of
\* the amounts.
FoundTicketGuardFirst(w, n, key, row) ==
    IF ~StatusGuard(row.status)
    THEN /\ sess' = [sess EXCEPT ![w] = Load(key, row)]
         /\ exc' = [exc EXCEPT ![w] = "RuntimeError"]
         /\ UNCHANGED <<resp, mails, tmails>>
         /\ pc' = [pc EXCEPT ![w] = "teardown"]
    ELSE IF ~AmountMatches(n.amount, row)
    THEN /\ sess' = [sess EXCEPT ![w] = MarkUnexpected(Load(key, row))]
         /\ mails' = send_mail(mails, w, MailUnexpected)
         /\ tmails' = send_mail(tmails, key, MailUnexpected)
         /\ resp' = [resp EXCEPT ![w] = OK200]
         /\ UNCHANGED exc
         /\ pc' = [pc EXCEPT ![w] = "teardown"]
    ELSE /\ sess' = [sess EXCEPT ![w] = RecordPayment(Load(key, row), n.sender)]
         /\ UNCHANGED <<exc, resp, mails, tmails>>
         /\ pc' = [pc EXCEPT ![w] = "commit_received"]


\* Lines 239-251 and 313-324: a ticket was found.
FoundTicket(w, n, key, row) ==
    IF ~AmountMatches(n.amount, row)
    THEN /\ sess' = [sess EXCEPT ![w] = MarkUnexpected(Load(key, row))]
         /\ IF MailUp
            THEN /\ mails' = send_mail(mails, w, MailUnexpected)
                 /\ tmails' = send_mail(tmails, key, MailUnexpected)
                 /\ resp' = [resp EXCEPT ![w] = OK200]
                 /\ UNCHANGED exc
            ELSE /\ exc' = [exc EXCEPT ![w] = MailError]
                 /\ UNCHANGED <<resp, mails, tmails>>
         /\ pc' = [pc EXCEPT ![w] = "teardown"]
    ELSE IF ~StatusGuard(row.status)
    THEN /\ sess' = [sess EXCEPT ![w] = Load(key, row)]
         /\ exc' = [exc EXCEPT ![w] = "RuntimeError"]
         /\ UNCHANGED <<resp, mails, tmails>>
         /\ pc' = [pc EXCEPT ![w] = "teardown"]
    ELSE /\ sess' = [sess EXCEPT ![w] = RecordPayment(Load(key, row), n.sender)]
         /\ UNCHANGED <<exc, resp, mails, tmails>>
         /\ pc' = [pc EXCEPT ![w] = "commit_received"]

\* Lines 236-251 and 313-331: find the ticket; without one, tell the
\* operators.
FindTicket(w) ==
    /\ pc[w] = "lookup"
    /\ LET n == req[w].note
           key == LookupKey(n.invoice_id)
           row == IF key \in TicketIds THEN db[key] ELSE NoRow
       IN
       IF n.invoice_id = NULL
       THEN \* None has no attribute lower
            /\ exc' = [exc EXCEPT ![w] = "AttributeError"]
            /\ UNCHANGED <<sess, found, resp, mails, tmails>>
            /\ pc' = [pc EXCEPT ![w] = "teardown"]
       ELSE IF n.invoice_id = NoKey \/ row = NoRow
       THEN /\ IF MailUp
               THEN /\ mails' = send_mail(mails, w, MailUnmatched)
                    /\ resp' = [resp EXCEPT ![w] = OK200]
                    /\ UNCHANGED exc
               ELSE /\ exc' = [exc EXCEPT ![w] = MailError]
                    /\ UNCHANGED <<resp, mails>>
            /\ UNCHANGED <<sess, found, tmails>>
            /\ pc' = [pc EXCEPT ![w] = "teardown"]
       ELSE /\ found' = [found EXCEPT ![w] = [id |-> key, row |-> row]]
            /\ FoundTicket(w, n, key, row)
    /\ UNCHANGED <<cfg, today, db, nextId, nreq, req, calls, hist>>

\* Variant of CommitReceived: SEPA_API not looked at, the ticket is always
\* marked as sending.
CommitReceivedAlwaysSends(w) ==
    /\ pc[w] = "commit_received"
    /\ db' = CommitRows(db, sess[w])
    /\ hist' = CommitHist(hist, sess[w])
    /\ sess' = [sess EXCEPT ![w] = SetAttr(Expire(@), "status", "sending")]
    /\ pc' = [pc EXCEPT ![w] = "commit_sending"]
    /\ UNCHANGED <<cfg, today, nextId, nreq, req, found, exc, resp, mails, calls,
                   tmails>>

\* Lines 252-261 and 302-311: commit the payment; then either mark the
\* ticket as sending, or (no backend) ask for a manual transfer and clear.
CommitReceived(w) ==
    /\ pc[w] = "commit_received"
    /\ db' = CommitRows(db, sess[w])
    /\ hist' = CommitHist(hist, sess[w])
    /\ IF cfg.sepa_api
       THEN /\ sess' = [sess EXCEPT ![w] = SetAttr(Expire(@), "status", "sending")]
            /\ pc' = [pc EXCEPT ![w] = "commit_sending"]
            /\ UNCHANGED <<mails, tmails, resp, exc>>
       ELSE /\ IF MailUp
               THEN /\ mails' = send_mail(mails, w, MailManual)
                    /\ tmails' = send_mail(tmails, sess[w].tid, MailManual)
                    /\ sess' = [sess EXCEPT ![w] =
                           clear(Refresh(Expire(@), db'[@.tid]))]
                    /\ resp' = [resp EXCEPT ![w] = OK200]
                    /\ UNCHANGED exc
               ELSE /\ exc' = [exc EXCEPT ![w] = MailError]
                    /\ sess' = [sess EXCEPT ![w] = Expire(@)]
                    /\ UNCHANGED <<mails, tmails, resp>>
            /\ pc' = [pc EXCEPT ![w] = "teardown"]
    /\ UNCHANGED <<cfg, today, nextId, nreq, req, found, calls>>

\* Variant of CommitSending: the commit of line 261 left out, so that sending
\* is written only by the commit that follows the call.
CommitSendingDeferred(w) ==
    /\ pc[w] = "commit_sending"
    /\ pc' = [pc EXCEPT ![w] = "call"]
    /\ UNCHANGED <<cfg, today, db, nextId, nreq, req, sess, found, exc, resp, mails,
                   calls, tmails, hist>>

\* Line 261: commit the sending status.
CommitSending(w) ==
    /\ pc[w] = "commit_sending"
    /\ db' = CommitRows(db, sess[w])
    /\ hist' = CommitHist(hist, sess[w])
    /\ sess' = [sess EXCEPT ![w] = Expire(@)]
    /\ pc' = [pc EXCEPT ![w] = "call"]
    /\ UNCHANGED <<cfg, today, nextId, nreq, req, found, exc, resp, mails, calls, tmails>>

\* The JSON body posted to the SEPA backend, from the ticket as the session
\* reads it; by: the request that posts it; result: what became of the call.
SettlementCall(no, id, t, hash) ==
    [by |-> no, id |-> <<id, "[:35]">>, name |-> t.recipient_name,
     bic |-> t.bic, iban |-> t.iban, amount |-> <<t.amount, ",.2f">>,
     text |-> "sepa.link: " \o t.text, verify |-> hash, result |-> "pending"]

\* Lines 265-276: post the transfer to the backend.
CallBackend(w) ==
    /\ pc[w] = "call"
    /\ LET s == Refresh(sess[w], db[sess[w].tid]) IN
       /\ sess' = [sess EXCEPT ![w] = s]
       /\ calls' = [calls EXCEPT ![s.tid] =
              Append(@, SettlementCall(req[w].no, s.tid, s.cur, req[w].note.hash))]
    /\ pc' = [pc EXCEPT ![w] = "await"]
    /\ UNCHANGED <<cfg, today, db, nextId, nreq, req, found, exc, resp, mails, tmails, hist>>

\* How the call can end: a 200 without an error field; a RequestException;
\* another status code; a 200 whose JSON body has an error field; a 200
\* whose body is not JSON.
BackendOutcomes == {"ok", "RequestException", "status", "error", "notjson"}

\* Variant of ErrorOf: the status code of the answer not looked at.
ErrorOfUncheckedStatus(out) ==
    CASE out = "RequestException" -> "connection failed"
      [] out = "error" -> "Backend did not accept transfer: no"
      [] OTHER -> NULL

\* Lines 263-285: the error text (NULL: none).
ErrorOf(out) ==
    CASE out = "RequestException" -> "connection failed"
      [] out = "status" -> "Unexpected status code: 500"
      [] out = "error" -> "Backend did not accept transfer: no"
      [] OTHER -> NULL

\* Variant of Truthy: the error never looked at.
TruthyNever(error) == FALSE

\* Line 287: if error
Truthy(error) == error # NULL /\ error # ""

\* Variant of StatusAfterCall: the status left alone when the call failed.
StatusAfterCallKeepsSending(error) == IF Truthy(error) THEN "sending" ELSE "sent"


\* Lines 289 and 295: the status assigned once the call has returned.
StatusAfterCall(error) == IF Truthy(error) THEN "received" ELSE "sent"

\* The outcome of the call that request no has outstanding.
SetResult(c, no, out) ==
    [i \in DOMAIN c |->
        IF c[i].by = no /\ c[i].result = "pending"
        THEN [c[i] EXCEPT !.result = out] ELSE c[i]]

\* Lines 277-311: the backend's answer.
BackendResponse(w, out) ==
    /\ pc[w] = "await"
    /\ out \in BackendOutcomes
    /\ calls' = [calls EXCEPT ![sess[w].tid] = SetResult(@, req[w].no, out)]
    /\ IF out = "notjson"
       THEN \* result.json() raises ValueError; nothing catches it
            /\ exc' = [exc EXCEPT ![w] = "ValueError"]
            /\ UNCHANGED <<db, hist, sess, mails, tmails, resp>>
       ELSE LET s == SetAttr(sess[w], "status", StatusAfterCall(ErrorOf(out))) IN
            /\ db' = CommitRows(db, s)
            /\ hist' = CommitHist(hist, s)
            /\ IF Truthy(ErrorOf(out))
               THEN /\ exc' = [exc EXCEPT ![w] = "ValueError"]
                    /\ sess' = [sess EXCEPT ![w] = Expire(s)]
                    /\ UNCHANGED <<mails, tmails, resp>>
               ELSE IF MailUp
               THEN /\ mails' = send_mail(mails, w, MailProcessed)
                    /\ tmails' = send_mail(tmails, s.tid, MailProcessed)
                    /\ sess' = [sess EXCEPT ![w] =
                           clear(Refresh(Expire(s), db'[s.tid]))]
                    /\ resp' = [resp EXCEPT ![w] = OK200]
                    /\ UNCHANGED exc
               ELSE /\ exc' = [exc EXCEPT ![w] = MailError]
                    /\ sess' = [sess EXCEPT ![w] = Expire(s)]
                    /\ UNCHANGED <<mails, tmails, resp>>
    /\ pc' = [pc EXCEPT ![w] = "teardown"]
    /\ UNCHANGED <<cfg, today, nextId, nreq, req, found>>

\* Variant of RollsBack: the session is committed whatever the view did.
RollsBackNever(e) == FALSE


\* ------------------------------------------------------------- end of request
\* shutdown_session: roll back if the view raised, commit otherwise.  A
\* view that raised is answered with a 500.
RollsBack(e) == e # NULL

shutdown_session(w) ==
    /\ pc[w] = "teardown"
    /\ IF RollsBack(exc[w])
       THEN /\ resp' = [resp EXCEPT ![w] = [code |-> 500, body |-> exc[w]]]
            /\ UNCHANGED <<db, hist>>
       ELSE /\ db' = CommitRows(db, sess[w])
            /\ hist' = CommitHist(hist, sess[w])
            /\ UNCHANGED resp
    /\ sess' = [sess EXCEPT ![w] = NoSession]
    /\ pc' = [pc EXCEPT ![w] = "done"]
    /\ UNCHANGED <<cfg, today, nextId, nreq, req, found, exc, mails, calls, tmails>>

\* The process serving the request dies: the session and everything not
\* committed is lost, nothing is answered.
InFlight == {"lookup", "commit_received", "commit_sending", "call", "await",
             "teardown"}

Crash(w) ==
    /\ pc[w] \in InFlight
    /\ pc' = [pc EXCEPT ![w] = "crashed"]
    /\ sess' = [sess EXCEPT ![w] = NoSession]
    /\ UNCHANGED <<cfg, today, db, nextId, nreq, req, found, exc, resp, mails, calls,
                   tmails, hist>>

\* ------------------------------------------------------------ specification
\* The service receives at most MaxRequests requests and constructs at most
\* MaxQuotes tickets.
Open == nreq < MaxRequests
OpenForQuotes == Open /\ nextId < MaxQuotes

Next ==
    \E w \in Workers :
        \/ \E q \in QuoteInputs : OpenForQuotes /\ quote(w, q)
        \/ \E n \in Notifications(nextId), v \in Receipts :
               Open /\ ReceiveNotification(w, n, v)
        \/ FindTicket(w)
        \/ CommitReceived(w)
        \/ CommitSending(w)
        \/ CallBackend(w)
        \/ \E out \in BackendOutcomes : BackendResponse(w, out)
        \/ shutdown_session(w)
        \/ Crash(w)

Spec == Init /\ [][Next]_vars

\* The same service taking one request at a time (a single synchronous
\* worker): a request is received only when no other is being handled.
Quiet == \A w \in Workers : pc[w] \notin InFlight

NextSerial ==
    \E w \in Workers :
        \/ \E q \in QuoteInputs : Quiet /\ OpenForQuotes /\ quote(w, q)
        \/ \E n \in Notifications(nextId), v \in Receipts :
               Quiet /\ Open /\ ReceiveNotification(w, n, v)
        \/ FindTicket(w)
        \/ CommitReceived(w)
        \/ CommitSending(w)
        \/ CallBackend(w)
        \/ \E out \in BackendOutcomes : BackendResponse(w, out)
        \/ shutdown_session(w)
        \/ Crash(w)

SpecSerial == Init /\ [][NextSerial]_vars

\* Genuine notifications for the tickets quoted so far, from two senders,
\* with the amount due or another; handlers interleave as under Spec.
OtherSender == "rother"
SenderNotifications(n) ==
    [invoice_id : {LowerIds[k] : k \in 1 .. n}, amount : PaidAmounts,
     sender : Senders \cup {OtherSender}, hash : {"foo"}]

NextSenders ==
    \E w \in Workers :
        \/ OpenForQuotes /\ quote(w, [sepa |-> GoodSepa, amount |-> <<220000, "EUR">>])
        \/ \E n \in SenderNotifications(nextId) :
               Open /\ ReceiveNotification(w, n, "VALID")
        \/ FindTicket(w)
        \/ CommitReceived(w)
        \/ CommitSending(w)
        \/ CallBackend(w)
        \/ \E out \in BackendOutcomes : BackendResponse(w, out)
        \/ shutdown_session(w)
        \/ Crash(w)

SpecSenders == Init /\ [][NextSenders]_vars

\* The same, one request at a time.
SpecSendersSerial ==
    Init /\ [][NextSenders /\ (nreq' # nreq => Quiet)]_vars

\* Genuine notifications as wasipaid sends them, with the currency paid:
\* EUR or XRP, the amount due or another.  One request at a time.
Currencies == {"EUR", "XRP"}
CurrencyNotifications(n) ==
    [invoice_id : {LowerIds[k] : k \in 1 .. n}, amount : PaidAmounts,
     currency : Currencies, sender : Senders, hash : {"foo"}]

NextCurrency ==
    \E w \in Workers :
        \/ /\ Quiet /\ OpenForQuotes
           /\ quote(w, [sepa |-> GoodSepa, amount |-> <<220000, "EUR">>])
        \/ \E n \in CurrencyNotifications(nextId) :
               Quiet /\ Open /\ ReceiveNotification(w, n, "VALID")
        \/ FindTicket(w)
        \/ CommitReceived(w)
        \/ CommitSending(w)
        \/ CallBackend(w)
        \/ \E out \in BackendOutcomes : BackendResponse(w, out)
        \/ shutdown_session(w)
        \/ Crash(w)

SpecCurrency == Init /\ [][NextCurrency]_vars

\* One request at a time, every handler going on: the view is straight-line
\* code, so a handler that has not died takes its next step, and the call to
\* the backend returns or fails.
HandlerStep(w) ==
    \/ FindTicket(w)
    \/ CommitReceived(w)
    \/ CommitSending(w)
    \/ CallBackend(w)
    \/ \E out \in BackendOutcomes : BackendResponse(w, out)
    \/ shutdown_session(w)

SpecSerialFair == SpecSerial /\ \A w \in Workers : WF_vars(HandlerStep(w))

\* The same, Postmark taking the mails or not.
InitMail ==
    /\ cfg \in [sepa_api : BOOLEAN, user_tx_limit : {USER_TX_LIMIT},
                bridge_tx_limit : {BRIDGE_TX_LIMIT}, postmark : BOOLEAN]
    /\ Fresh

SpecMail == InitMail /\ [][NextSerial]_vars

\* ------------------------------------------------- recipients put to the test
\* Recipients as a client has them, and the string a client makes of one:
\* the fields joined with '/', in either order of IBAN and BIC, '+' for a
\* space.
Recipients ==
    [name : {"User Name", "DABADKKK", "A"},
     iban : ValidIbans,
     bic : {"DABADKKK", "DEUTDEFF500"},
     text : {"Foo Bar", "", "GB82WEST12345698765432"}]

disable_spaces(s) == replace(s, " ", "+")

unparse(x) ==
    disable_spaces(x.name) \o "/" \o x.iban \o "/" \o x.bic \o "/"
        \o disable_spaces(x.text)

unparseBicFirst(x) ==
    disable_spaces(x.name) \o "/" \o x.bic \o "/" \o x.iban \o "/"
        \o disable_spaces(x.text)

\* Other strings a client can send as the user part.
OddStrings ==
    {"User+Name/GB82WEST12345698765432/DABADKKK",
     "User Name/GB82WEST12345698765432/DABADKKK",
     "User+Name/GB82WEST12345691765432/DABADKKK",
     "User+Name/GB82WEST12345698765432/DABADKKKa",
     "User+Name/GB82WEST12345698765432/DABAXXKK",
     "ANNA+MAY/GB82WEST12345698765432/DABADKKK",
     "User/Foo/Bar/GB82WEST12345698765432",
     "GB82WEST12345698765432/DABADKKK",
     "/GB82WEST12345698765432/DABADKKK",
     "User/GB82WEST12345698765432",
     "User/DABADKKK",
     "User/Foo",
     "/Foo",
     "User",
     "a/b/c/d/e"}

UserStrings ==
    {unparse(x) : x \in Recipients} \cup {unparseBicFirst(x) : x \in Recipients}
        \cup OddStrings

\* Recipients as the quote form can carry them: each field right or wrong.
SepaInputs ==
    [name : {"A User", ""},
     bic : {"DABADKKK", "DABADKKKa"},
     iban : {"GB82WEST12345698765432", "GB82WEST12345691765432"},
     text : {"Yadda", LongText}]

InitParse ==
    /\ cfg = [sepa_api |-> FALSE, user_tx_limit |-> USER_TX_LIMIT,
              bridge_tx_limit |-> BRIDGE_TX_LIMIT, postmark |-> TRUE]
    /\ Fresh

OpenParse == Quiet /\ nreq < MaxParseRequests

NextParse ==
    \E w \in Workers :
        \/ \E user \in UserStrings : OpenParse /\ federation(w, user)
        \/ \E sepa \in SepaInputs :
               OpenParse /\ quote(w, [sepa |-> sepa, amount |-> <<220000, "EUR">>])
        \/ shutdown_session(w)

SpecParse == InitParse /\ [][NextParse]_vars

\* -------------------------------------------------- the limits at work
\* Midnight (UTC) passes.
Midnight ==
    /\ today < MaxDays
    /\ today' = today + 1
    /\ UNCHANGED <<cfg, db, nextId, nreq, pc, req, sess, found, exc, resp,
                   mails, calls, tmails, hist>>

\* The default limits with a backend; without one, the per-recipient limit
\* switched off, or both.
InitLimits ==
    /\ cfg \in {[sepa_api |-> TRUE, user_tx_limit |-> USER_TX_LIMIT,
                 bridge_tx_limit |-> BRIDGE_TX_LIMIT, postmark |-> TRUE],
                [sepa_api |-> FALSE, user_tx_limit |-> 0,
                 bridge_tx_limit |-> BRIDGE_TX_LIMIT, postmark |-> TRUE],
                [sepa_api |-> FALSE, user_tx_limit |-> 0,
                 bridge_tx_limit |-> 0, postmark |-> TRUE]}
    /\ Fresh

\* Quotes for two recipients: 60.10 EUR, 450 EUR and -5 EUR.
OtherSepa == [GoodSepa EXCEPT !.iban = "CH9300762011623852957"]

LimitQuoteInputs ==
    [sepa : {GoodSepa, OtherSepa}, amount : {<<601000, "EUR">>}]
        \cup [sepa : {GoodSepa},
              amount : {<<4500000, "EUR">>, <<-50000, "EUR">>}]

\* Payments of 60.10 + 4.505 and of 450 + 24, and one of neither, for the
\* tickets quoted so far.
LimitNotifications(n) ==
    [invoice_id : {LowerIds[k] : k \in 1 .. n},
     amount : {646050, 4740000, 500000}, sender : Senders, hash : {"foo"}]

\* The backend takes the transfer or answers with status 500.
LimitOutcomes == {"ok", "status"}

OpenLimits == Quiet /\ nreq < MaxLimitRequests

NextLimits ==
    \/ \E w \in Workers :
        \/ \E q \in LimitQuoteInputs :
               OpenLimits /\ nextId < MaxLimitQuotes /\ quote(w, q)
        \/ \E n \in LimitNotifications(nextId) :
               OpenLimits /\ ReceiveNotification(w, n, "VALID")
        \/ FindTicket(w)
        \/ CommitReceived(w)
        \/ CommitSending(w)
        \/ CallBackend(w)
        \/ \E out \in LimitOutcomes : BackendResponse(w, out)
        \/ shutdown_session(w)
    \/ Quiet /\ Midnight

SpecLimits == InitLimits /\ [][NextLimits]_vars

\* ------------------------------------------------------------------ claims
\* Vocabulary of the properties below.
IsPayment(w) == req[w].kind = "payment"
Genuine(w) == IsPayment(w) /\ req[w].receipt = "VALID"
Finished(w) == pc[w] = "done"

\* The settlement calls request w issued.
CallsBy(w) ==
    {c \in UNION {{calls[t][i] : i \in DOMAIN calls[t]} : t \in TicketIds} :
        c.by = req[w].no}

\* How often x occurs in the sequence q.
Count(q, x) == Cardinality({i \in DOMAIN q : q[i] = x})

\* The outcomes after which the backend verifiably did not take the transfer.
VerifiablyFailed == {"RequestException", "status", "error"}

\* C1: two notifications for one ticket never both pass the status guard and
\* both reach the backend: a settlement call is issued for a ticket only if
\* every earlier call for it has verifiably failed.
C1_AtMostOneSettlement ==
    \A t \in TicketIds : \A i, j \in DOMAIN calls[t] :
        i < j => calls[t][i].result \in VerifiablyFailed

\* Request w is a genuine notification for which a ticket was found, paying
\* exactly (or not exactly) the amount quoted plus the fee.
Matched(w) == Genuine(w) /\ found[w].id # NULL
Matching(w) ==
    Matched(w) /\ req[w].note.amount = found[w].row.amount + found[w].row.fee
Mismatching(w) ==
    Matched(w) /\ req[w].note.amount # found[w].row.amount + found[w].row.fee

\* C2: a genuine notification paying amount + fee for a ticket that is
\* sending, sent or confirmed raises an error that reaches the caller (a
\* 500), issues no settlement call and changes no field of any ticket.
C2_GuardViolationIsFatal ==
    [][\A w \in Workers :
         (/\ pc'[w] # pc[w]
          /\ Matching(w)'
          /\ found'[w].row.status \in {"sending", "sent", "confirmed"})
         => /\ pc'[w] \in {"teardown", "done", "crashed"}
            /\ pc'[w] # "crashed" => exc'[w] = "RuntimeError"
            /\ pc'[w] = "done" => resp'[w].code = 500
            /\ db' = db /\ hist' = hist
            /\ calls' = calls /\ CallsBy(w)' = {}
            /\ tmails' = tmails /\ mails'[w] = <<>>]_vars

\* The same notification replayed for a ticket that is sent by now: refused,
\* and the ticket has still had one settlement call.
C2_Witness ==
    \E w \in Workers :
        /\ Finished(w) /\ Matching(w)
        /\ found[w].row.status = "sent"
        /\ exc[w] = "RuntimeError" /\ resp[w].code = 500
        /\ db[found[w].id].status = "sent"
        /\ Len(calls[found[w].id]) = 1

\* C3: when a matching notification finds its ticket quoted, a backend is
\* configured and its call succeeds, the statuses committed for the ticket
\* are quoted, received, sending, sent, in this order and each by a commit
\* of its own; the handler posts to the backend once, after sending is
\* committed and before sent is, with the ticket's name, bic, iban and a
\* text that contains the memo.
C3_CheckpointsInOrder ==
    [][\A w \in Workers :
         LET t == found'[w].id IN
         (/\ Matching(w)' /\ found'[w].row.status = "quoted" /\ cfg.sepa_api
          /\ pc'[w] # pc[w] /\ pc'[w] # "crashed")
         => /\ pc[w] = "lookup" =>
                 /\ pc'[w] = "commit_received"
                 /\ db' = db /\ hist' = hist /\ calls' = calls
            /\ pc[w] = "commit_received" =>
                 /\ pc'[w] = "commit_sending"
                 /\ db'[t].status = "received"
                 /\ hist[t] = <<"quoted">>
                 /\ hist'[t] = <<"quoted", "received">>
                 /\ calls' = calls /\ CallsBy(w) = {}
            /\ pc[w] = "commit_sending" =>
                 /\ pc'[w] = "call"
                 /\ db'[t].status = "sending"
                 /\ hist'[t] = <<"quoted", "received", "sending">>
                 /\ calls' = calls /\ CallsBy(w) = {}
            /\ pc[w] = "call" =>
                 /\ pc'[w] = "await"
                 /\ db' = db /\ hist' = hist
                 /\ CallsBy(w) = {}
                 /\ \E c \in CallsBy(w)' :
                      /\ CallsBy(w)' = {c}
                      /\ c.id[1] = t
                      /\ c.name = db[t].recipient_name
                      /\ c.bic = db[t].bic
                      /\ c.iban = db[t].iban
                      /\ c.text = "sepa.link: " \o db[t].text
            /\ (pc[w] = "await" /\ exc'[w] = NULL) =>
                 /\ pc'[w] = "teardown"
                 /\ db'[t].status = "sent"
                 /\ hist[t] = <<"quoted", "received", "sending">>
                 /\ hist'[t] = <<"quoted", "received", "sending", "sent">>
                 /\ Cardinality(CallsBy(w)') = 1
                 /\ Len(calls'[t]) = 1
                 /\ mails'[w] = <<MailProcessed>>
                 /\ resp'[w] = OK200
            /\ (pc[w] = "teardown" /\ exc[w] = NULL) =>
                 /\ db'[t].status = db[t].status
                 /\ hist' = hist /\ calls' = calls]_vars

C3_Witness ==
    \E w \in Workers :
        /\ Finished(w) /\ Matching(w) /\ cfg.sepa_api
        /\ found[w].row.status = "quoted"
        /\ resp[w] = OK200
        /\ hist[found[w].id] = <<"quoted", "received", "sending", "sent">>
        /\ db[found[w].id].status = "sent"
        /\ Len(calls[found[w].id]) = 1
        /\ calls[found[w].id][1].by = req[w].no
        /\ calls[found[w].id][1].name = "A User"
        /\ calls[found[w].id][1].text = "sepa.link: Yadda"

\* No handler is about to write the status of ticket t.
Unheld(t) ==
    \A w \in Workers :
        ~(/\ pc[w] \in {"commit_received", "commit_sending", "call", "await"}
          /\ sess[w].tid = t)

\* Ticket t is committed as sending and no handler holds it.
Parked(t) == db[t] # NoRow /\ db[t].status = "sending" /\ Unheld(t)

\* C4: a crash after sending was committed and before the backend's answer
\* is processed leaves the ticket committed as sending; from then on it
\* stays sending, every matching notification for it is refused by the
\* guard, and no settlement call is issued for it.
C4_CrashLeavesSending ==
    [][/\ \A w \in Workers :
            (pc[w] \in {"call", "await"} /\ pc'[w] = "crashed")
            => Parked(found[w].id)'
       /\ \A t \in TicketIds :
            Parked(t) => Parked(t)' /\ calls'[t] = calls[t]
       /\ \A w \in Workers :
            (/\ pc[w] = "lookup" /\ pc'[w] # "crashed"
             /\ Matching(w)' /\ Parked(found'[w].id))
            => exc'[w] = "RuntimeError" /\ pc'[w] = "teardown"]_vars

\* A ticket left in sending by a crash during the call, and a later
\* notification for it that was refused.
C4_Witness ==
    \E w \in Workers :
        /\ Finished(w) /\ Matching(w)
        /\ found[w].row.status = "sending"
        /\ exc[w] = "RuntimeError"
        /\ Parked(found[w].id)
        /\ Len(calls[found[w].id]) = 1
        /\ calls[found[w].id][1].result = "pending"

\* C5: a payment is applied once per ticket: after a settlement call for a
\* ticket has succeeded no further call is issued for it, and at most one
\* manual-transfer mail is ever sent for a ticket.
C5_AppliedOnce ==
    \A t \in TicketIds :
        /\ \A i, j \in DOMAIN calls[t] : i < j => calls[t][i].result # "ok"
        /\ Count(tmails[t], MailManual) <= 1

\* C6 as claimed: whatever way the settlement call fails, the handler has
\* committed received when the failure leaves it.
C6_AnyFailureReverts ==
    [][\A w \in Workers :
         (pc[w] = "await" /\ pc'[w] = "teardown" /\ exc'[w] # NULL)
         => /\ db[found[w].id].status = "sending"
            /\ db'[found[w].id].status = "received"
            /\ hist'[found[w].id] = Append(hist[found[w].id], "received")]_vars

\* C6 as amended: after a RequestException, a status other than 200 or an
\* error field in the body, the handler commits received over sending and
\* then raises; after a 200 whose body is not JSON it raises without a
\* commit, which leaves the ticket committed as sending.  The error is answered with a 500
\* and a rollback, and no commit writes quoted over another status.
C6_VerifiedFailureReverts ==
    [][/\ \A w \in Workers :
            (pc[w] = "await" /\ pc'[w] = "teardown") =>
                LET t == found[w].id IN
                \A c \in CallsBy(w)' :
                    /\ db[t].status = "sending"
                    /\ c.result \in VerifiablyFailed =>
                         /\ db'[t].status = "received"
                         /\ hist'[t] = Append(hist[t], "received")
                         /\ exc'[w] = "ValueError"
                    /\ c.result = "notjson" =>
                         /\ db' = db /\ hist' = hist
                         /\ exc'[w] = "ValueError"
       /\ \A w \in Workers :
            (pc[w] = "teardown" /\ pc'[w] = "done" /\ exc[w] # NULL)
            => db' = db /\ hist' = hist /\ resp'[w].code = 500
       /\ \A t \in TicketIds :
            (db[t] # NoRow /\ db[t].status # "quoted")
            => db'[t].status # "quoted"]_vars

C6_Witness ==
    \E w \in Workers :
        /\ Finished(w) /\ Matching(w)
        /\ \E c \in CallsBy(w) : c.result \in VerifiablyFailed
        /\ found[w].row.status = "quoted"
        /\ hist[found[w].id] = <<"quoted", "received", "sending", "received">>
        /\ db[found[w].id].status = "received"
        /\ exc[w] = "ValueError" /\ resp[w].code = 500

\* C7: a genuine notification that finds its ticket but pays another amount
\* marks the ticket unexpected, sends one mail to the operators, issues no
\* settlement call, is answered 200 OK, and its handler changes neither the
\* status nor the sender of the ticket.
C7_MismatchMarksTicket ==
    [][\A w \in Workers :
         (Mismatching(w)' /\ pc'[w] \in {"teardown", "done"})
         => LET t == found'[w].id IN
            /\ mails'[w] = <<MailUnexpected>>
            /\ CallsBy(w)' = {}
            /\ resp'[w] = OK200 /\ exc'[w] = NULL
            /\ pc'[w] = "done" => db'[t].failed = "unexpected"
            /\ pc'[w] # pc[w] =>
                 /\ db'[t].status = db[t].status
                 /\ db'[t].ripple_address = db[t].ripple_address
                 /\ hist' = hist /\ calls' = calls]_vars

C7_Witness ==
    \E w \in Workers :
        /\ Finished(w) /\ Mismatching(w)
        /\ db[found[w].id].failed = "unexpected"
        /\ db[found[w].id].ripple_address = NULL
        /\ mails[w] = <<MailUnexpected>>
        /\ resp[w] = OK200

\* C8 as claimed: once a mismatching notification has been handled the
\* ticket is marked unexpected and its status is received.
C8_MismatchLeavesReceived ==
    \A w \in Workers :
        (Finished(w) /\ Mismatching(w))
        => /\ db[found[w].id].failed = "unexpected"
           /\ db[found[w].id].status = "received"

\* C8 as amended: handling a mismatching notification marks the ticket
\* unexpected and leaves its status as it found it: the handler reads the
\* committed status and no step of it changes that status.
C8_MismatchKeepsStatus ==
    [][\A w \in Workers :
         (Mismatching(w)' /\ pc'[w] # pc[w] /\ pc'[w] \in {"teardown", "done"})
         => LET t == found'[w].id IN
            /\ pc[w] = "lookup" => found'[w].row.status = db[t].status
            /\ db'[t].status = db[t].status
            /\ pc'[w] = "done" => db'[t].failed = "unexpected"]_vars

C8_Witness ==
    \E w \in Workers :
        /\ Finished(w) /\ Mismatching(w)
        /\ found[w].row.status = "quoted"
        /\ db[found[w].id].failed = "unexpected"
        /\ db[found[w].id].status = "quoted"

\* C9: a genuine notification for which no ticket is found is answered 200
\* OK after exactly one mail to the operators, with no settlement call.
C9_UnmatchedIsBenign ==
    \A w \in Workers :
        (Genuine(w) /\ Finished(w) /\ found[w].id = NULL)
        => /\ resp[w] = OK200
           /\ mails[w] = <<MailUnmatched>>
           /\ CallsBy(w) = {}

\* C10: a notification that wasipaid does not call VALID is answered with a
\* status other than 200 without a ticket being looked up: its handler
\* changes no ticket, issues no settlement call and sends no mail.
C10_RejectedTouchesNothing ==
    [][\A w \in Workers :
         (IsPayment(w)' /\ req'[w].receipt # "VALID" /\ pc'[w] # pc[w])
         => /\ pc'[w] \in {"teardown", "done", "crashed"}
            /\ sess'[w].tid = NULL /\ found'[w].id = NULL
            /\ pc'[w] = "done" => resp'[w].code \in {400, 500}
            /\ db' = db /\ hist' = hist
            /\ calls' = calls /\ CallsBy(w)' = {}
            /\ tmails' = tmails /\ mails'[w] = <<>>]_vars

\* A notification that would have paid a quoted ticket, refused.
C10_Witness ==
    \E w \in Workers :
        /\ Finished(w) /\ IsPayment(w)
        /\ req[w].receipt = "INVALID"
        /\ resp[w].code = 400
        /\ req[w].note.invoice_id \in TicketIds
        /\ db[req[w].note.invoice_id] # NoRow
        /\ db[req[w].note.invoice_id].status = "quoted"
        /\ req[w].note.amount = 246000

\* The settlement instruction fields.
Instructions == {"recipient_name", "bic", "iban", "text"}

\* Request w has had a settlement call that the backend accepted.
Settled(w) == \E c \in CallsBy(w) : c.result = "ok"

\* C11: with no backend configured no settlement call is made and no ticket
\* is ever committed as sending or sent; a matching notification that has
\* been handled found its ticket quoted or received, left it received with
\* the sender recorded, sent exactly the manual-transfer mail and was
\* answered 200 OK.
C11_NoBackendStaysReceived ==
    ~cfg.sepa_api =>
        /\ \A t \in TicketIds :
            /\ calls[t] = <<>>
            /\ \A i \in DOMAIN hist[t] : hist[t][i] \in {"quoted", "received"}
            /\ db[t] # NoRow => db[t].status \in {"quoted", "received"}
        /\ \A w \in Workers :
            (Finished(w) /\ Matching(w)) =>
                /\ found[w].row.status \in {"quoted", "received"}
                /\ db[found[w].id].status = "received"
                /\ db[found[w].id].ripple_address = req[w].note.sender
                /\ mails[w] =
                     <<"SEPA bridge: Payment received: Execute a transfer">>
                /\ exc[w] = NULL
                /\ resp[w] = [code |-> 200, body |-> "OK"]

C11_Witness ==
    \E w \in Workers :
        /\ ~cfg.sepa_api
        /\ Finished(w) /\ Matching(w)
        /\ found[w].row.status = "quoted"
        /\ db[found[w].id].status = "received"
        /\ hist[found[w].id] = <<"quoted", "received">>
        /\ tmails[found[w].id] = <<MailManual>>

C13_OnlySuccessClears ==
    [][\A t \in TicketIds :
         (db[t] # NoRow /\ \E f \in Instructions : db'[t][f] # db[t][f])
         => /\ \A f \in Instructions : db'[t][f] = ""
            /\ \E w \in Workers :
                 /\ pc[w] = "teardown" /\ pc'[w] = "done"
                 /\ Matching(w) /\ found[w].id = t
                 /\ found[w].row.status \in {"quoted", "received"}
                 /\ exc[w] = NULL /\ resp[w].code = 200
                 /\ cfg.sepa_api => Settled(w)]_vars

\* A failed settlement call, after which the ticket still has the fields
\* given with the quote.
C13_Witness ==
    \E w \in Workers :
        /\ Finished(w) /\ Matching(w)
        /\ \E c \in CallsBy(w) : c.result \in VerifiablyFailed
        /\ db[found[w].id].recipient_name = "A User"
        /\ db[found[w].id].bic = "DABADKKK"
        /\ db[found[w].id].iban = "GB82WEST12345698765432"
        /\ db[found[w].id].text = "Yadda"

IsQuote(w) == req[w].kind = "quote"

\* The amounts of the first k tickets that were created on day and are not
\* quoted, of recipient iban if one is given (""; none).
RECURSIVE Volume(_, _, _, _)
Volume(d, day, iban, k) ==
    IF k = 0 THEN 0
    ELSE LET r == d[LowerIds[k]]
             counts == /\ r # NoRow
                       /\ r.status \in {"received", "sending", "sent",
                                         "confirmed"}
                       /\ r.created_at = day
                       /\ (iban = "" \/ r.iban = iban)
         IN  (IF counts THEN r.amount ELSE 0) + Volume(d, day, iban, k - 1)

\* Quote q has a valid recipient and an amount of two parts in EUR that
\* divides no cent.
WellFormed(q) ==
    /\ q.sepa.name # "" /\ q.sepa.bic = "DABADKKK"
    /\ q.sepa.iban \in {"GB82WEST12345698765432", "CH9300762011623852957"}
    /\ q.sepa.text = "Yadda"
    /\ Len(q.amount) = 2 /\ q.amount[2] = "EUR" /\ q.amount[1] % 100 = 0

\* Quote q is over a limit that is switched on.
OverLimit(q) ==
    \/ /\ cfg.user_tx_limit # 0
       /\ q.amount[1] + Volume(db, today, q.sepa.iban, MaxTickets)
            > cfg.user_tx_limit
    \/ /\ cfg.bridge_tx_limit # 0
       /\ q.amount[1] + Volume(db, today, "", MaxTickets) > cfg.bridge_tx_limit

\* Worker w takes a quote request in this step.
TakesQuote(w) == Free(w) /\ pc'[w] = "teardown" /\ IsQuote(w)'

LargestAmount ==
    CHOOSE a \in {0} \cup {db[t].amount : t \in {x \in TicketIds : db[x] # NoRow}} :
        \A t \in TicketIds : db[t] # NoRow => db[t].amount <= a

\* C16: today's volume of a recipient is above the per-recipient limit by
\* at most the amount of one ticket, and today's volume of all recipients
\* above the system-wide limit by at most the amount of one ticket.
C16_BoundedOverAdmission ==
    /\ cfg.user_tx_limit # 0 =>
         \A iban \in {"GB82WEST12345698765432", "CH9300762011623852957"} :
             Volume(db, today, iban, MaxTickets)
                 <= cfg.user_tx_limit + LargestAmount
    /\ cfg.bridge_tx_limit # 0 =>
         Volume(db, today, "", MaxTickets) <= cfg.bridge_tx_limit + LargestAmount

\* C17: tx_volume_today, with or without a recipient, is the sum of the
\* amounts of the tickets created today that are not quoted (of that
\* recipient), whatever their failure marker; 0 when there is none.
C17_VolumeIsSumOfPaidToday ==
    \A iban \in {"", "GB82WEST12345698765432", "CH9300762011623852957"} :
        /\ tx_volume_today(db, iban) = Volume(db, today, iban, MaxTickets)
        /\ (\A t \in TicketIds :
               db[t] = NoRow \/ db[t].status = "quoted"
                   \/ db[t].created_at # today
                   \/ (iban # "" /\ db[t].iban # iban))
           => tx_volume_today(db, iban) = 0

\* A ticket paid yesterday and a ticket paid today and marked unexpected:
\* the volume is the amount of the second.
C17_Witness ==
    \E t, u \in TicketIds :
        /\ db[t] # NoRow /\ db[u] # NoRow
        /\ db[t].status = "received" /\ db[t].created_at < today
        /\ db[u].status = "received" /\ db[u].created_at = today
        /\ db[u].failed = "unexpected"
        /\ tx_volume_today(db, "") = db[u].amount
        /\ db[u].amount = 601000 /\ db[u].fee = 45050

\* C18: the fee of every stored ticket is the fixed fee plus exactly
\* volume fee hundredths of its amount.
C18_FeeIsExact ==
    \A t \in TicketIds :
        db[t] # NoRow =>
            100 * (db[t].fee - FIXED_FEE) = db[t].amount * VOLUME_FEE

\* 60.10 EUR: the fee is 1.50 + 3.005 = 4.505 EUR.
C18_Witness ==
    \E t \in TicketIds :
        db[t] # NoRow /\ db[t].amount = 601000 /\ db[t].fee = 45050

\* C19: a quote with a valid recipient whose amount is negative, divides a
\* cent or is not in EUR is answered invalidAmount.
C19_BadAmountIsRejected ==
    \A w \in Workers :
        (/\ Finished(w) /\ IsQuote(w)
         /\ validate_sepa(req[w].quote.sepa) = "ok"
         /\ Len(req[w].quote.amount) = 2
         /\ \/ req[w].quote.amount[1] < 0
            \/ req[w].quote.amount[1] % 100 # 0
            \/ req[w].quote.amount[2] # "EUR")
        => resp[w].body = "invalidAmount"

\* C20: a well-formed quote that is over no limit constructs one ticket:
\* quoted, without sender and failure marker, with the amount asked for,
\* the fee, and the recipient as given; the answer names its id and
\* amount + fee; the request ends by storing that ticket and changing no
\* other, and sends no mail and makes no settlement call.
C20_QuotePersistsTicket ==
    [][\A w \in Workers :
         /\ (TakesQuote(w) /\ WellFormed(req'[w].quote)
             /\ ~OverLimit(req'[w].quote)) =>
              LET q == req'[w].quote
                  fee == 15000 + (q.amount[1] * 5) \div 100
              IN
              /\ nextId' = nextId + 1
              /\ sess'[w].new =
                   [id |-> LowerIds[nextId'],
                    row |-> [amount |-> q.amount[1], fee |-> fee,
                             created_at |-> today, ripple_address |-> NULL,
                             status |-> "quoted", failed |-> NULL,
                             recipient_name |-> q.sepa.name,
                             bic |-> q.sepa.bic, iban |-> q.sepa.iban,
                             text |-> q.sepa.text]]
              /\ db[LowerIds[nextId']] = NoRow
              /\ resp'[w] = [code |-> 200, body |-> "success",
                             invoice_id |-> LowerIds[nextId'],
                             value |-> q.amount[1] + fee]
              /\ db' = db /\ calls' = calls /\ tmails' = tmails
              /\ mails'[w] = <<>>
         /\ (IsQuote(w) /\ pc[w] = "teardown" /\ pc'[w] = "done"
             /\ resp[w].body = "success") =>
              /\ db' = [db EXCEPT ![resp[w].invoice_id] = sess[w].new.row]
              /\ sess[w].new.id = resp[w].invoice_id
              /\ hist'[resp[w].invoice_id] = <<"quoted">>
              /\ calls' = calls /\ tmails' = tmails /\ mails' = mails]_vars

C20_Witness ==
    \E w \in Workers :
        /\ Finished(w) /\ IsQuote(w)
        /\ resp[w].body = "success" /\ resp[w].value = 646050
        /\ db[resp[w].invoice_id].status = "quoted"
        /\ db[resp[w].invoice_id].amount = 601000
        /\ db[resp[w].invoice_id].fee = 45050
        /\ db[resp[w].invoice_id].iban = "CH9300762011623852957"
        /\ Cardinality({t \in TicketIds : db[t] # NoRow}) = 2

\* --------------------------------------------------------- quotes refused
\* The three errors a quote is answered with.
QuoteErrors == {"invalidSEPA", "invalidAmount", "limitExceeded"}

\* Quote q names no valid recipient; its amount is in no EUR or divides a
\* cent.
BadRecipient(q) ==
    \/ q.sepa.name = ""
    \/ q.sepa.bic # "DABADKKK"
    \/ q.sepa.iban \notin {"GB82WEST12345698765432", "CH9300762011623852957"}
    \/ q.sepa.text = "b*140"
BadAmount(q) ==
    /\ Len(q.amount) = 2
    /\ q.amount[2] # "EUR" \/ q.amount[1] % 100 # 0
Failing(q) ==
    \/ BadRecipient(q)
    \/ BadAmount(q)
    \/ Len(q.amount) = 2 /\ OverLimit(q)

\* C21: a quote that names no valid recipient, an invalid amount or an
\* amount over a limit is answered at once with 200 and one of the three
\* errors; it adds no ticket to the session, changes no stored ticket,
\* neither when it is handled nor when it ends, and sends no mail.
C21_FailedQuoteTouchesNothing ==
    [][\A w \in Workers :
         /\ (TakesQuote(w) /\ Failing(req'[w].quote)) =>
              /\ resp'[w].code = 200 /\ resp'[w].body \in QuoteErrors
              /\ sess'[w] = NoSession
              /\ nextId' = nextId /\ db' = db /\ hist' = hist
              /\ mails'[w] = <<>> /\ tmails' = tmails /\ calls' = calls
         /\ (IsQuote(w) /\ pc[w] = "teardown" /\ pc'[w] = "done"
             /\ resp[w].body \in QuoteErrors) =>
              /\ db' = db /\ hist' = hist
              /\ mails' = mails /\ tmails' = tmails /\ calls' = calls
              /\ resp'[w] = resp[w]]_vars

\* A quote refused for its amount while a ticket is stored.
C21_Witness ==
    \E w \in Workers :
        /\ Finished(w) /\ IsQuote(w)
        /\ resp[w].body = "invalidAmount"
        /\ mails[w] = <<>>
        /\ \E t \in TicketIds : db[t] # NoRow

\* C22: the amount and the fee of a stored ticket never change, and no
\* ticket is removed, whatever a quote, a notification, a settlement, a
\* clearing of the instruction fields, a rollback or a crash does.
C22_AmountAndFeeAreFixed ==
    [][\A t \in TicketIds :
         db[t] # NoRow =>
             /\ db'[t] # NoRow
             /\ db'[t].amount = db[t].amount
             /\ db'[t].fee = db[t].fee]_vars

\* A ticket settled and cleared that was paid a wrong amount afterwards:
\* amount and fee are those quoted.
C22_Witness ==
    \E t \in TicketIds :
        /\ db[t] # NoRow
        /\ db[t].status = "sent" /\ db[t].iban = ""
        /\ db[t].failed = "unexpected"
        /\ db[t].amount = 220000 /\ db[t].fee = 26000

\* ------------------------------------------------------------------ expiry
\* Ticket.expires is created_at + 3600 s.  The clock moves in whole days, so
\* the expiry of a row has passed when the day is a later one.
PastExpiry(row) == row.created_at < today

\* C23: a ticket that was never paid and whose expiry has passed stays
\* quoted and gets no settlement call.
C23_ExpiredIsNotPayable ==
    [][\A t \in TicketIds :
         (db[t] # NoRow /\ db[t].status = "quoted" /\ PastExpiry(db[t])) =>
             /\ db'[t].status = "quoted"
             /\ calls'[t] = calls[t]]_vars

\* -------------------------------------------------------- end of a request
\* Worker w ends its request in this step.
Ends(w) == pc[w] = "teardown" /\ pc'[w] = "done"

\* C24: a request that ends with an exception writes nothing when it ends:
\* what it assigned and no checkpoint committed is lost, what its
\* checkpoints committed stays.  A request that ends without an exception
\* writes, when it ends and not before, the ticket it added and every
\* attribute it assigned since its last checkpoint.
C24_PendingCommitsWithTheRequest ==
    [][\A w \in Workers :
         /\ (Ends(w) /\ exc[w] # NULL) =>
              /\ db' = db /\ hist' = hist
              /\ resp'[w].code = 500
         /\ (Ends(w) /\ exc[w] = NULL) =>
              /\ sess[w].new.id # NULL =>
                    /\ db[sess[w].new.id] = NoRow
                    /\ db' = [db EXCEPT ![sess[w].new.id] = sess[w].new.row]
              /\ sess[w].tid # NULL =>
                    /\ \A f \in Fields \ sess[w].expired :
                           db'[sess[w].tid][f] = sess[w].cur[f]
                    /\ \A f \in sess[w].expired :
                           db'[sess[w].tid][f] = db[sess[w].tid][f]
                    /\ \A t \in TicketIds \ {sess[w].tid} : db'[t] = db[t]
              /\ (sess[w].new.id = NULL /\ sess[w].tid = NULL) => db' = db
         /\ (pc[w] = "lookup" /\ pc'[w] = "teardown") => db' = db]_vars

\* A notification with a wrong amount whose mail Postmark did not take: the
\* request ended with a 500 and the ticket carries no failure marker.
C24_Witness ==
    \E w \in Workers :
        /\ Finished(w) /\ Genuine(w)
        /\ found[w].id # NULL
        /\ req[w].note.amount # found[w].row.amount + found[w].row.fee
        /\ exc[w] = "PMMailSendException"
        /\ resp[w].code = 500
        /\ db[found[w].id].failed = NULL
        /\ db[found[w].id].status = "received"

\* ---------------------------------------------------------------- C25
\* The rules of a recipient, each stated on its own.
AccountFails(sepa) == sepa.iban \notin ValidIbans
BankFails(sepa) ==
    \/ Len(sepa.bic) \notin {8, 11}
    \/ \E i \in 1 .. 4 : SubSeq(sepa.bic, i, i) \notin ascii_uppercase
    \/ SubSeq(sepa.bic, 5, 6) \notin COUNTRIES
NameFails(sepa) == sepa.name = ""
MemoFails(sepa) == sepa.text = LongText

EarliestFailure(sepa) ==
    IF AccountFails(sepa) THEN "iban"
    ELSE IF BankFails(sepa) THEN "bic"
    ELSE IF NameFails(sepa) THEN "name"
    ELSE IF MemoFails(sepa) THEN "text"
    ELSE "ok"

\* The segments of a user string, and what is among them.
Segments(user) == {split(user, "/")[i] : i \in 1 .. Len(split(user, "/"))}
HasAccount(user) == Segments(user) \cap ValidIbans # {}
HasBank(user) ==
    \E part \in Segments(user) :
        ~BankFails([bic |-> part])

\* A federation request whose string was taken apart and refused.
Refused(w) ==
    /\ pc[w] = "teardown"
    /\ req[w].kind = "federation"
    /\ resp[w] # NoResp
    /\ resp[w].parsed.exc = "ValueError"
    /\ resp[w].parsed.message \notin
           {"Not yet supported", "old-style recipient has wrong number of parts"}

Parsed(w) == pc[w] = "teardown" /\ req[w].kind = "federation"

\* C26: for every user string the parser returns a dict of name, text, iban
\* and bic, or raises ValueError with a reason, and nothing else: the
\* federation view, which catches ValueError only, never ends in an
\* exception.
C26_ParserRaisesOnlyValueError ==
    \A w \in Workers :
        Parsed(w) =>
            LET parsed == parse_sepa_data(req[w].user, TRUE) IN
            /\ parsed.exc \in {NULL, "ValueError"}
            /\ parsed.exc = "ValueError" =>
                   parsed.message # "" /\ parsed.value = NoDict
            /\ parsed.exc = NULL =>
                   DOMAIN parsed.value = {"name", "text", "iban", "bic"}
            /\ exc[w] = NULL

\* What does hold: apart from ValueError the parser raises AttributeError,
\* on a segment of 8 or 11 characters that begins with four capitals and has
\* no country code in places 5 and 6, and AssertionError, on a second segment
\* left for the text; the view then ends in that exception.
C26_ParserRaisesThreeKinds ==
    \A w \in Workers :
        Parsed(w) =>
            LET parsed == parse_sepa_data(req[w].user, TRUE) IN
            /\ parsed.exc \in {NULL, "ValueError", "AttributeError", "AssertionError"}
            /\ parsed.exc = "AttributeError" =>
                   \E part \in Segments(req[w].user) :
                       /\ Len(part) \in {8, 11}
                       /\ \A i \in 1 .. 4 : SubSeq(part, i, i) \in ascii_uppercase
                       /\ SubSeq(part, 5, 6) \notin COUNTRIES
            /\ parsed.exc = "AssertionError" =>
                   Len(split(req[w].user, "/")) \in {3, 4}
            /\ exc[w] = IF parsed.exc = "ValueError" THEN NULL ELSE parsed.exc
            /\ parsed.exc = NULL =>
                   /\ parsed.value.iban \in ValidIbans
                   /\ parsed.value.bic # ""
                   /\ parsed.value.name # ""

\* The two failures at work.
C26_Witness ==
    \E w \in Workers :
        /\ Parsed(w)
        /\ req[w].user = "User/Foo/Bar/GB82WEST12345698765432"
        /\ exc[w] = "AssertionError"

\* ---------------------------------------------------------------- C27
\* The recipients a finished federation request's user string was made of.
MadeOf(w) ==
    {x \in Recipients : req[w].user \in {unparse(x), unparseBicFirst(x)}}

\* A field the parser takes for a BIC or an IBAN.
ShapedLikeId(field) ==
    \/ field \in ValidIbans
    \/ ~BankFails([bic |-> disable_spaces(field)])

\* C27: parsing the string made of a valid recipient, its fields joined by
\* '/' with '+' for a space, IBAN and BIC in either order, returns that
\* recipient, whatever its name and text look like.
C27_ParseInvertsUnparse ==
    \A w \in Workers :
        Parsed(w) =>
            \A x \in MadeOf(w) :
                parse_sepa_data(req[w].user, TRUE) = Return(x)

\* What does hold: the recipient comes back when neither its name nor its
\* text is shaped like a BIC or an IBAN.
C27_ParseInvertsUnparseOfPlainFields ==
    \A w \in Workers :
        Parsed(w) =>
            \A x \in MadeOf(w) :
                ~ShapedLikeId(x.name) /\ ~ShapedLikeId(x.text) =>
                    parse_sepa_data(req[w].user, TRUE) = Return(x)

\* A recipient named like a BIC comes back under another name.
C27_Witness ==
    \E w \in Workers :
        /\ Parsed(w)
        /\ \E x \in MadeOf(w) :
              /\ x.name = "DABADKKK" /\ x.text = "Foo Bar"
              /\ parse_sepa_data(req[w].user, TRUE).exc = NULL
              /\ parse_sepa_data(req[w].user, TRUE).value.name = "Foo Bar"
              /\ parse_sepa_data(req[w].user, TRUE).value.text = ""

\* ---------------------------------------------------------------- C28
Rank(status) ==
    CASE status = "quoted" -> 0
      [] status = "received" -> 1
      [] status = "sending" -> 2
      [] status = "sent" -> 3
      [] OTHER -> 4

\* C28: the committed status of a ticket only moves forward along quoted,
\* received, sending, sent, but for sending back to received when a
\* settlement call has failed: no ticket returns to quoted and a ticket that
\* is sent keeps that status.
C28_StatusOnlyMovesForward ==
    [][\A t \in TicketIds :
         db[t] # NoRow =>
             /\ db'[t] # NoRow
             /\ \/ Rank(db'[t].status) >= Rank(db[t].status)
                \/ /\ db[t].status = "sending" /\ db'[t].status = "received"
                   /\ \E i \in DOMAIN calls'[t] :
                          calls'[t][i].result \in VerifiablyFailed]_vars

\* What does hold under every interleaving: a stored ticket stays stored and
\* never returns to quoted.
C28_NeverBackToQuoted ==
    [][\A t \in TicketIds :
         db[t] # NoRow =>
             /\ db'[t] # NoRow
             /\ db[t].status # "quoted" => db'[t].status # "quoted"]_vars

\* A ticket that was committed sent and is received now, with no settlement
\* call of its having failed.
C28_Witness ==
    \E t \in TicketIds :
        /\ db[t] # NoRow /\ db[t].status = "received"
        /\ \E i \in DOMAIN hist[t] : hist[t][i] = "sent"
        /\ \A i \in DOMAIN calls[t] : calls[t][i].result = "ok"

\* ---------------------------------------------------------------- C29
\* Ticket t has a settlement call that has not come back.
Outstanding(t) == \E i \in DOMAIN calls[t] : calls[t][i].result = "pending"

\* C29: the backend is called for a ticket only after sending has been
\* committed for it, and while a call for a ticket is outstanding the
\* committed status of the ticket is sending, however the handlers
\* interleave.
C29_SendingWhileCallOutstanding ==
    \A t \in TicketIds :
        /\ calls[t] # <<>> => \E i \in DOMAIN hist[t] : hist[t][i] = "sending"
        /\ Outstanding(t) => db[t].status = "sending"

\* What does hold under every interleaving: a handler calls the backend only
\* with the commit of sending as its last step before, so that sending is
\* among the statuses committed for the ticket.
C29_CallOnlyAfterSendingCommitted ==
    [][\A t \in TicketIds :
         Len(calls'[t]) > Len(calls[t]) =>
             /\ \E i \in DOMAIN hist[t] : hist[t][i] = "sending"
             /\ \E w \in Workers :
                    /\ pc[w] = "call" /\ pc'[w] = "await"
                    /\ found[w].id = t
                    /\ found[w].row.status \in {"quoted", "received"}]_vars

\* A call is outstanding, no worker has died, and the ticket is committed as
\* received.
C29_Witness ==
    \E t \in TicketIds :
        /\ Outstanding(t)
        /\ db[t].status = "received"
        /\ \A w \in Workers : pc[w] # "crashed"

\* ---------------------------------------------------------------- C30
\* The handler of w ends, having called the backend.
EndsAfterCall(w) ==
    pc[w] = "teardown" /\ pc'[w] = "done" /\ CallsBy(w) # {}

\* C30 as claimed: a handler that has committed sending and does not die
\* comes to its end, and at its end, reached normally or by raising, the
\* ticket is not committed as sending.
C30_HandlerLeavesNoSending ==
    /\ \A w \in Workers : (pc[w] = "call") ~> (pc[w] \in {"done", "crashed"})
    /\ [][\A w \in Workers :
            EndsAfterCall(w) => db'[found[w].id].status # "sending"]_vars

\* C30 as amended: a handler that has committed sending and does not die
\* comes to its end.  At its end the ticket is sent if the call succeeded,
\* received if it failed with a RequestException, a status other than 200 or
\* an error field, and still sending if the 200 answer could not be read as
\* JSON, for which the handler raises.
C30_HandlerSettlesUnlessUnreadable ==
    /\ \A w \in Workers : (pc[w] = "call") ~> (pc[w] \in {"done", "crashed"})
    /\ [][\A w \in Workers :
            EndsAfterCall(w) =>
                \A c \in CallsBy(w) :
                    /\ c.result \in BackendOutcomes
                    /\ c.result = "ok" => db'[found[w].id].status = "sent"
                    /\ c.result \in VerifiablyFailed =>
                           /\ db'[found[w].id].status = "received"
                           /\ exc[w] = "ValueError"
                    /\ c.result = "notjson" =>
                           /\ db'[found[w].id].status = "sending"
                           /\ exc[w] = "ValueError"]_vars

\* A handler has come to its end by raising on an answer that was not JSON,
\* and its ticket is committed as sending.
C30_Witness ==
    \E w \in Workers :
        /\ Finished(w)
        /\ \E c \in CallsBy(w) : c.result = "notjson"
        /\ exc[w] = "ValueError" /\ resp[w].code = 500
        /\ hist[found[w].id] = <<"quoted", "received", "sending">>
        /\ db[found[w].id].status = "sending"

\* ---------------------------------------------------------------- C31
\* C31: the status of every stored ticket is one of quoted, received,
\* sending, sent, confirmed; the first status committed for a ticket is
\* quoted; and confirmed is never committed.
C31_StatusIsOneOfFive ==
    \A t \in TicketIds :
        db[t] # NoRow =>
            /\ db[t].status \in {"quoted", "received", "sending", "sent", "confirmed"}
            /\ hist[t] # <<>> /\ hist[t][1] = "quoted"
            /\ \A i \in DOMAIN hist[t] : hist[t][i] # "confirmed"
            /\ db[t].status = hist[t][Len(hist[t])]

\* A ticket has gone through all four statuses the handlers write.
C31_Witness ==
    \E t \in TicketIds :
        /\ db[t] # NoRow /\ db[t].status = "sent"
        /\ hist[t] = <<"quoted", "received", "sending", "sent">>

\* ---------------------------------------------------------------- C32
\* Worker w holds a notification that passed the status guard.
PassedGuard(w) ==
    /\ Matching(w)
    /\ found[w].row.status \in {"quoted", "received"}

\* C32: a quoted ticket has no sender; a ticket that is received, sending or
\* sent has one; the sender is written only together with the status
\* received, by the commit of a handler whose notification passed the
\* guard, as the sender of that notification, and before that handler has
\* called the backend.
C32_SenderCommittedWithReceived ==
    /\ [](\A t \in TicketIds :
            db[t] # NoRow =>
                /\ db[t].status = "quoted" => db[t].ripple_address = NULL
                /\ db[t].status \in {"received", "sending", "sent"} =>
                       db[t].ripple_address \in Senders \cup {OtherSender})
    /\ [][\A t \in TicketIds :
            (/\ db[t] # NoRow
             /\ \/ db'[t].ripple_address # db[t].ripple_address
                \/ db[t].status = "quoted" /\ db'[t].status # "quoted")
            => \E w \in Workers :
                  /\ pc[w] = "commit_received" /\ pc'[w] # "crashed"
                  /\ PassedGuard(w) /\ found[w].id = t
                  /\ db'[t].ripple_address = req[w].note.sender
                  /\ db'[t].status = "received"
                  /\ calls' = calls /\ CallsBy(w) = {}]_vars

\* A ticket was settled by the handler of one sender's notification and
\* names another sender, written over the first while the ticket was
\* sending.
C32_Witness ==
    \E t \in TicketIds : \E w \in Workers :
        /\ db[t] # NoRow /\ db[t].status = "sent"
        /\ hist[t] = <<"quoted", "received", "sending", "sent">>
        /\ Len(calls[t]) = 1 /\ calls[t][1].result = "ok"
        /\ req[w].kind = "payment" /\ req[w].no = calls[t][1].by
        /\ req[w].note.sender # db[t].ripple_address

\* ---------------------------------------------------------------- C33
\* C33: the amounts are compared before the status is looked at.  A genuine
\* notification with another amount than the one due, for a ticket found in
\* whatever status, sending and sent included, does not raise the guard's
\* RuntimeError: it is answered 200 OK, and the commit at its end writes
\* failed = "unexpected" and leaves the status as it is.
C33_MismatchNeverTripsGuard ==
    [][\A w \in Workers :
         /\ (pc[w] = "lookup" /\ pc'[w] # "crashed" /\ Mismatching(w)') =>
                /\ pc'[w] = "teardown"
                /\ exc'[w] = NULL /\ resp'[w] = OK200
                /\ db' = db /\ hist' = hist
         /\ (pc[w] = "teardown" /\ pc'[w] = "done" /\ Mismatching(w)) =>
                /\ exc[w] # "RuntimeError" /\ resp'[w].code = 200
                /\ db'[found[w].id].failed = "unexpected"
                /\ db'[found[w].id].status = db[found[w].id].status
                /\ hist' = hist]_vars

\* A notification with a wrong amount for a ticket that was sent: answered
\* OK, the ticket tagged and still sent.
C33_Witness ==
    \E w \in Workers :
        /\ Finished(w) /\ Mismatching(w)
        /\ found[w].row.status = "sent"
        /\ exc[w] = NULL /\ resp[w] = OK200
        /\ db[found[w].id].status = "sent"
        /\ db[found[w].id].failed = "unexpected"

\* ---------------------------------------------------------------- C34
\* C34: no commit takes a failure marker off a ticket or replaces it: a
\* ticket marked unexpected stays so, through a later matching notification
\* and its settlement included.
C34_FailureMarkerStays ==
    [][\A t \in TicketIds :
         (db[t] # NoRow /\ db[t].failed # NULL) =>
             /\ db'[t] # NoRow
             /\ db'[t].failed = db[t].failed]_vars

\* A ticket marked unexpected was then paid and settled: it is sent and
\* cleared, and still marked.
C34_Witness ==
    \E t \in TicketIds :
        /\ db[t] # NoRow /\ db[t].status = "sent"
        /\ db[t].failed = "unexpected"
        /\ db[t].iban = "" /\ db[t].text = ""
        /\ Len(calls[t]) = 1 /\ calls[t][1].result = "ok"
        /\ tmails[t] = <<MailUnexpected, MailProcessed>>

\* ---------------------------------------------------------------- C35
\* Request w is a genuine notification of a payment in another currency
\* than EUR.
NotInEur(w) == Genuine(w) /\ req[w].note.currency # "EUR"

\* C35: a notification that does not pay EUR is not taken as the payment of
\* a ticket: no step of its handler commits a status or a sender, and its
\* handler makes no settlement call, whatever the amount.
C35_OnlyEurIsAccepted ==
    [][\A w \in Workers :
         (NotInEur(w)' /\ pc'[w] # pc[w]) =>
             /\ hist' = hist /\ calls' = calls
             /\ CallsBy(w)' = {}
             /\ \A t \in TicketIds :
                    db[t] # NoRow =>
                        /\ db'[t].status = db[t].status
                        /\ db'[t].ripple_address = db[t].ripple_address]_vars

\* What does hold: the currency is not looked at.  A notification in XRP
\* whose number is not the amount due marks the ticket and leaves its
\* status alone, as one in EUR does.
C35_WrongAmountInAnyCurrency ==
    [][\A w \in Workers :
         (/\ pc[w] = "teardown" /\ pc'[w] = "done"
          /\ Genuine(w) /\ found[w].id # NULL
          /\ req[w].note.amount # found[w].row.amount + found[w].row.fee)
         => /\ db'[found[w].id].failed = "unexpected"
            /\ db'[found[w].id].status = db[found[w].id].status
            /\ CallsBy(w) = {}]_vars

\* 24.60 XRP were paid for a ticket of 22.00 EUR plus fee, and 22.00 EUR
\* were transferred.
C35_Witness ==
    \E w \in Workers :
        /\ Finished(w) /\ NotInEur(w)
        /\ req[w].note.amount = 246000
        /\ found[w].id # NULL
        /\ found[w].row.status = "quoted"
        /\ resp[w] = OK200
        /\ db[found[w].id].status = "sent"
        /\ \E c \in CallsBy(w) : c.result = "ok" /\ c.amount = <<220000, ",.2f">>

====
